---- MODULE Spec2Model ----
(***************************************************************************)
(* Lumina AI: the application controller (App component), its chat input   *)
(* and the AI gateway calls it awaits, as a state machine.                  *)
(*                                                                         *)
(* Every handler runs to its next await as one step.  An awaited gateway    *)
(* call is an entry of inflight that carries what the handler's closure     *)
(* captured when it was invoked; a file read whose onloadend has not fired  *)
(* yet is an entry of pending.                                              *)
(***************************************************************************)
EXTENDS Integers, Sequences, FiniteSets, TLC

VARIABLES
    originalImage,       \* useState<string | null>
    generatedImages,     \* useState<RoomImage[]>
    selectedImageIndex,  \* useState<number>, -1 = no generation yet
    status,              \* useState<ProcessingStatus>
    chatMessages,        \* useState<ChatMessage[]>
    errorMsg,            \* useState<string | null>
    input,               \* ChatInterface: useState('') of the text field
    pending,             \* FileReader reads / sample fetches not finished yet
    inflight,            \* awaited gateway calls, each with its closure
    requests,            \* number of gateway requests issued so far
    now,                 \* Date.now()
    sliderPosition,      \* CompareSlider: useState(50), percent
    isDragging,          \* CompareSlider: useRef(false)
    pointer,             \* where the mouse / the finger is, and what is held
    argument,            \* the input of a function studied on its own
    result               \* what it returned

\* the state of the controller and of the chat input
appVars == <<originalImage, generatedImages, selectedImageIndex, status,
             chatMessages, errorMsg, input, pending, inflight, requests, now>>

\* the state of the compare slider and of the pointing device
sliderVars == <<sliderPosition, isDragging, pointer>>

\* a function call studied on its own
callVars == <<argument, result>>

vars == <<appVars, sliderVars, callVars>>

-----------------------------------------------------------------------------
(* Bounds of the model *)

MaxCalls == 2
MaxPending == 1
MaxClock == 1
MaxAffix == 1
MaxX == 8
MaxHistory == 7
MaxParts == 3

-----------------------------------------------------------------------------
(* Values *)

\* null / undefined / the empty string: every text and URL of the model is a
\* sequence, and the absent one is the empty sequence (all three are falsy)
Null == <<>>

\* ProcessingStatus
IDLE == "IDLE"
GENERATING == "GENERATING"
EDITING == "EDITING"
ERROR == "ERROR"
ProcessingStatus == {IDLE, GENERATING, EDITING, ERROR}

\* `data:${mimeType};base64,${data}`
DataUrl(mimeType, data) == <<"data:", mimeType, ";base64,", data>>

\* reader.result of the files a user can pick, and of the sample room
FileImages == { DataUrl("image/png", "RklMRUE=") }
SampleImage == DataUrl("image/jpeg", "U0FNUExF")

\* what the generative service can answer an image request with: the parts
\* of the first candidate, or a transport / service failure
TransportError == [ok |-> FALSE]
ImageResponses ==
    { [ok |-> TRUE, parts |-> <<[text |-> "Here is your room."]>>],
      [ok |-> TRUE, parts |-> <<[text |-> "Done."],
          [inlineData |-> [mimeType |-> "image/png", data |-> "R0VORVJBVEVE"]]>>] }
ImageOutcomes == ImageResponses \cup {TransportError}

\* what it can answer a chat request with
ChatResponses ==
    { [ok |-> TRUE, text |-> <<"A brass floor lamp would suit it.">>,
       chunks |-> <<[web |-> [uri |-> "https://shop.example/lamp", title |-> "Lamp"]],
                    [retrievedContext |-> "notes"]>>] }
ChatOutcomes == ChatResponses \cup {TransportError}

STYLE_PRESETS ==
    [ scandi  |-> [name |-> "Scandinavian",
                   prompt |-> "Scandinavian style, minimalism, white walls, light wood floors, cozy textiles, functional furniture, bright and airy"],
      japandi |-> [name |-> "Japandi",
                   prompt |-> "Japandi style, blend of Japanese rustic minimalism and Scandinavian functionality, clean lines, bright spaces, natural materials"],
      boho    |-> [name |-> "Bohemian Chic",
                   prompt |-> "Bohemian style, eclectic patterns, plants everywhere, rattan furniture, layered rugs, warm earthy colors, relaxed atmosphere"],
      industrial |-> [name |-> "Industrial Lofts",
                   prompt |-> "Industrial style, exposed brick, metal accents, leather furniture, concrete floors, raw materials, edgy and modern"],
      midcentury |-> [name |-> "Mid-Century Modern",
                   prompt |-> "Mid-Century Modern style, teak wood furniture, organic curves, geometric patterns, retro vibes, warm tones"] ]

\* the style buttons the model clicks
ClickedStyles == {"scandi"}

GenerateFailedMsg == <<"Failed to generate design. Please try again.">>
SampleFailedMsg == <<"Could not load sample image. Please upload one instead.">>

-----------------------------------------------------------------------------
(* Text.  A text is a sequence of one-character strings, so that trimming   *)
(* and the keyword test work on its characters; the fixed texts of the      *)
(* program are one-element sequences.                                       *)

UpperCase == <<"A","B","C","D","E","F","G","H","I","J","K","L","M",
               "N","O","P","Q","R","S","T","U","V","W","X","Y","Z">>
LowerCase == <<"a","b","c","d","e","f","g","h","i","j","k","l","m",
               "n","o","p","q","r","s","t","u","v","w","x","y","z">>

\* the /i flag: letters compare without case
FoldCase(c) ==
    IF \E k \in 1..Len(UpperCase) : UpperCase[k] = c
    THEN LowerCase[CHOOSE k \in 1..Len(UpperCase) : UpperCase[k] = c]
    ELSE c

\* the regex without its /i flag
MatchesAt_CaseSensitive(text, word, at) ==
    /\ at + Len(word) - 1 <= Len(text)
    /\ \A k \in 1..Len(word) : text[at + k - 1] = word[k]

MatchesAt(text, word, at) ==
    /\ at + Len(word) - 1 <= Len(text)
    /\ \A k \in 1..Len(word) : FoldCase(text[at + k - 1]) = word[k]

Contains(text, word) == \E at \in 1..Len(text) : MatchesAt(text, word, at)

EditKeywords ==
    { <<"c","h","a","n","g","e">>, <<"a","d","d">>, <<"r","e","m","o","v","e">>,
      <<"m","a","k","e">>, <<"t","u","r","n">> }

\* /change|add|remove|make|turn/i.test(text)
isEditCommand(text) == \E w \in EditKeywords : Contains(text, w)

WhiteSpace == {" "}

RECURSIVE TrimStart(_)
TrimStart(t) ==
    IF t # <<>> /\ Head(t) \in WhiteSpace THEN TrimStart(Tail(t)) ELSE t

RECURSIVE TrimEnd(_)
TrimEnd(t) ==
    IF t # <<>> /\ t[Len(t)] \in WhiteSpace
    THEN TrimEnd(SubSeq(t, 1, Len(t) - 1)) ELSE t

\* String.prototype.trim
Trim(t) == TrimEnd(TrimStart(t))

\* what the user types into the chat field
TypedInputs == { <<"A","d","d"," ">>, <<"h","i">> }

ApplyingMsg == <<"I'm applying those changes to the design...">>
UpdatedMsg == <<"Here is the updated design based on your request.">>
EditFailedMsg == <<"Sorry, I encountered an issue editing the image.">>
ChatFailedMsg == <<"I'm having trouble connecting right now. Please try again.">>
EmptyReplyMsg == <<"I couldn't generate a response. Please try again.">>

-----------------------------------------------------------------------------
(* Sequence helpers *)

RemoveAt(s, i) == SubSeq(s, 1, i - 1) \o SubSeq(s, i + 1, Len(s))

-----------------------------------------------------------------------------
(* Computed values of the component *)

\* generatedImages[selectedImageIndex] of a JS array: undefined out of range
currentDisplayedImage ==
    IF selectedImageIndex >= 0 /\ selectedImageIndex < Len(generatedImages)
    THEN generatedImages[selectedImageIndex + 1]
    ELSE Null

HasDisplayedImage ==
    selectedImageIndex >= 0 /\ selectedImageIndex < Len(generatedImages)

\* the main view: the upload card without an original image, CompareSlider
\* when a generated image is displayed, the original alone otherwise
CompareSliderProps ==
    IF originalImage # Null /\ HasDisplayedImage
    THEN [shown |-> TRUE, original |-> originalImage,
          generated |-> currentDisplayedImage.url]
    ELSE [shown |-> FALSE]

-----------------------------------------------------------------------------
\* the App component and the chat input after their first render
AppInit ==
    /\ originalImage = Null
    /\ generatedImages = <<>>
    /\ selectedImageIndex = -1
    /\ status = IDLE
    /\ chatMessages = <<>>
    /\ errorMsg = Null
    /\ input = <<>>
    /\ pending = <<>>
    /\ inflight = <<>>
    /\ requests = 0
    /\ now = 0

\* CompareSlider as it mounts, with nothing pressed
SliderInit ==
    /\ sliderPosition = 50
    /\ isDragging = FALSE
    /\ pointer = [x |-> 0, held |-> "none"]

\* no function is being studied on its own
NotCalled == [done |-> FALSE]

CallIdle ==
    /\ argument = Null
    /\ result = NotCalled

Init == AppInit /\ SliderInit /\ CallIdle

-----------------------------------------------------------------------------
(* Upload, sample image, start over *)

\* the file input is rendered only while there is no original image
handleFileUpload(file) ==
    /\ originalImage = Null
    /\ Len(pending) < MaxPending
    /\ pending' = Append(pending, [kind |-> "file", image |-> file])
    /\ UNCHANGED <<sliderVars, callVars, originalImage, generatedImages, selectedImageIndex, status,
                   chatMessages, input, errorMsg, inflight, requests, now>>

handleSampleImage ==
    /\ originalImage = Null
    /\ Len(pending) < MaxPending
    /\ pending' = Append(pending, [kind |-> "sample", image |-> SampleImage])
    /\ UNCHANGED <<sliderVars, callVars, originalImage, generatedImages, selectedImageIndex, status,
                   chatMessages, input, errorMsg, inflight, requests, now>>

\* onloadend without setStatus(ProcessingStatus.IDLE)
onloadend_KeepsStatus(i) ==
    /\ i \in 1..Len(pending)
    /\ originalImage' = pending[i].image
    /\ generatedImages' = <<>>
    /\ selectedImageIndex' = -1
    /\ chatMessages' = <<>>
    /\ errorMsg' = Null
    /\ pending' = RemoveAt(pending, i)
    /\ UNCHANGED <<sliderVars, callVars, status, input, inflight, requests, now>>

\* reader.onloadend of either handler
onloadend(i) ==
    /\ i \in 1..Len(pending)
    /\ originalImage' = pending[i].image
    /\ generatedImages' = <<>>
    /\ selectedImageIndex' = -1
    /\ chatMessages' = <<>>
    /\ status' = IDLE
    /\ errorMsg' = Null
    /\ pending' = RemoveAt(pending, i)
    /\ UNCHANGED <<sliderVars, callVars, input, inflight, requests, now>>

\* the fetch of the sample image rejects: catch of handleSampleImage
sampleFetchFails(i) ==
    /\ i \in 1..Len(pending)
    /\ pending[i].kind = "sample"
    /\ errorMsg' = SampleFailedMsg
    /\ pending' = RemoveAt(pending, i)
    /\ UNCHANGED <<sliderVars, callVars, originalImage, generatedImages, selectedImageIndex, status,
                   chatMessages, input, inflight, requests, now>>

\* the Start Over button is rendered only while there is an original image
startOver ==
    /\ originalImage # Null
    /\ originalImage' = Null
    /\ generatedImages' = <<>>
    /\ chatMessages' = <<>>
    /\ UNCHANGED <<sliderVars, callVars, selectedImageIndex, status, errorMsg, input, pending,
                   inflight, requests, now>>

\* a thumbnail of the history is clicked
selectThumbnail(idx) ==
    /\ originalImage # Null
    /\ idx \in 0..(Len(generatedImages) - 1)
    /\ selectedImageIndex' = idx
    /\ UNCHANGED <<sliderVars, callVars, originalImage, generatedImages, status, chatMessages, input,
                   errorMsg, pending, inflight, requests, now>>

-----------------------------------------------------------------------------
(* Style selection *)

\* the style button: rendered with an original image, disabled unless IDLE
StyleButtonEnabled == originalImage # Null /\ status = IDLE

\* the guards of handleStyleSelect itself
StyleSelectAccepts(styleId) ==
    /\ ~(originalImage = Null \/ status = GENERATING)
    /\ styleId \in DOMAIN STYLE_PRESETS

\* handleStyleSelect without `!originalImage` in its guard, on a button
\* rendered without an original image
handleStyleSelect_NoImageGuard(styleId) ==
    /\ requests < MaxCalls
    /\ IF status = IDLE /\ styleId \in DOMAIN STYLE_PRESETS
       THEN /\ status' = GENERATING
            /\ errorMsg' = Null
            /\ inflight' = Append(inflight,
                   [kind |-> "style", styleId |-> styleId,
                    image |-> originalImage,
                    prompt |-> STYLE_PRESETS[styleId].prompt,
                    capturedLength |-> Len(generatedImages)])
            /\ requests' = requests + 1
            /\ UNCHANGED <<sliderVars, callVars, originalImage, generatedImages, selectedImageIndex,
                           chatMessages, input, pending, now>>
       ELSE UNCHANGED vars

handleStyleSelect(styleId) ==
    /\ requests < MaxCalls
    /\ IF StyleButtonEnabled /\ StyleSelectAccepts(styleId)
       THEN /\ status' = GENERATING
            /\ errorMsg' = Null
            /\ inflight' = Append(inflight,
                   [kind |-> "style", styleId |-> styleId,
                    image |-> originalImage,
                    prompt |-> STYLE_PRESETS[styleId].prompt,
                    capturedLength |-> Len(generatedImages)])
            /\ requests' = requests + 1
            /\ UNCHANGED <<sliderVars, callVars, originalImage, generatedImages, selectedImageIndex,
                           chatMessages, input, pending, now>>
       ELSE UNCHANGED vars

\* the loop over response.candidates[0].content.parts of generateReimaginedRoom
\* and editRoomImage: the data URL of the first inline part, Null when the
\* call threw or no part is an image
InlineParts(parts) == SelectSeq(parts, LAMBDA part : "inlineData" \in DOMAIN part)

\* the loop keeping the last inline part instead of returning at the first
ReturnedImage_LastPart(outcome) ==
    IF ~outcome.ok \/ InlineParts(outcome.parts) = <<>>
    THEN Null
    ELSE LET d == InlineParts(outcome.parts)[Len(InlineParts(outcome.parts))].inlineData
         IN  DataUrl(IF d.mimeType = "" THEN "image/jpeg" ELSE d.mimeType, d.data)

ReturnedImage(outcome) ==
    IF ~outcome.ok \/ InlineParts(outcome.parts) = <<>>
    THEN Null
    ELSE LET d == InlineParts(outcome.parts)[1].inlineData
         IN  DataUrl(IF d.mimeType = "" THEN "image/jpeg" ELSE d.mimeType, d.data)

\* the new image labelled with the preset's id
StyleImage_NamedById(call, url) ==
    [id |-> now, url |-> url,
     styleName |-> call.styleId,
     description |-> <<"Reimagined in ", STYLE_PRESETS[call.styleId].name, " style">>]

StyleImage(call, url) ==
    [id |-> now, url |-> url,
     styleName |-> STYLE_PRESETS[call.styleId].name,
     description |-> <<"Reimagined in ", STYLE_PRESETS[call.styleId].name, " style">>]

\* generatedImages.length - 1, as if the closure's array held the new image
SelectNew_LastOfOld(call) == call.capturedLength - 1

\* setSelectedImageIndex(prev => generatedImages.length), the closure's array
SelectNew(call) == call.capturedLength

\* generateReimaginedRoom resolved
styleResolved(i, outcome) ==
    /\ i \in 1..Len(inflight)
    /\ inflight[i].kind = "style"
    /\ ReturnedImage(outcome) # Null
    /\ generatedImages' =
           Append(generatedImages, StyleImage(inflight[i], ReturnedImage(outcome)))
    /\ selectedImageIndex' = SelectNew(inflight[i])
    /\ status' = IDLE
    /\ inflight' = RemoveAt(inflight, i)
    /\ UNCHANGED <<sliderVars, callVars, originalImage, chatMessages, input, errorMsg, pending,
                   requests, now>>

\* the catch calling generateReimaginedRoom once more
styleRejected_Retries(i, outcome) ==
    /\ i \in 1..Len(inflight)
    /\ inflight[i].kind = "style"
    /\ ReturnedImage(outcome) = Null
    /\ requests < MaxCalls
    /\ requests' = requests + 1
    /\ inflight' = Append(RemoveAt(inflight, i), inflight[i])
    /\ UNCHANGED <<sliderVars, callVars, originalImage, generatedImages, selectedImageIndex, status,
                   errorMsg, chatMessages, input, pending, now>>

\* the catch without setErrorMsg
styleRejected_Silent(i, outcome) ==
    /\ i \in 1..Len(inflight)
    /\ inflight[i].kind = "style"
    /\ ReturnedImage(outcome) = Null
    /\ status' = IDLE
    /\ inflight' = RemoveAt(inflight, i)
    /\ UNCHANGED <<sliderVars, callVars, originalImage, generatedImages, selectedImageIndex, errorMsg,
                   chatMessages, input, pending, requests, now>>

\* the catch without the finally that returns to IDLE
styleRejected_NoFinally(i, outcome) ==
    /\ i \in 1..Len(inflight)
    /\ inflight[i].kind = "style"
    /\ ReturnedImage(outcome) = Null
    /\ errorMsg' = GenerateFailedMsg
    /\ inflight' = RemoveAt(inflight, i)
    /\ UNCHANGED <<sliderVars, callVars, originalImage, generatedImages, selectedImageIndex, status,
                   chatMessages, input, pending, requests, now>>

\* generateReimaginedRoom rejected
styleRejected(i, outcome) ==
    /\ i \in 1..Len(inflight)
    /\ inflight[i].kind = "style"
    /\ ReturnedImage(outcome) = Null
    /\ errorMsg' = GenerateFailedMsg
    /\ status' = IDLE
    /\ inflight' = RemoveAt(inflight, i)
    /\ UNCHANGED <<sliderVars, callVars, originalImage, generatedImages, selectedImageIndex,
                   chatMessages, input, pending, requests, now>>

-----------------------------------------------------------------------------
(* Chat *)

\* ids are Date.now().toString(): the decimal numeral of a number names it,
\* so an id is kept as the number
UserMessage(text) ==
    [id |-> now, role |-> "user", text |-> text, timestamp |-> now]

ModelMessage(id, text) ==
    [id |-> id, role |-> "model", text |-> text, timestamp |-> now]

HistoryWindow == 6

\* history.slice(0, 6)
RecentHistory_FirstSix(history) ==
    SubSeq(history, 1,
           IF Len(history) > HistoryWindow THEN HistoryWindow ELSE Len(history))

\* history.slice(-6)
RecentHistory(history) ==
    SubSeq(history,
           IF Len(history) > HistoryWindow THEN Len(history) - HistoryWindow + 1 ELSE 1,
           Len(history))

PromptLine(m) ==
    [speaker |-> IF m.role = "user" THEN "User" ELSE "Designer", text |-> m.text]

\* `${historyText}\nUser: ${newMessage}\nDesigner:` as its lines; the join of
\* no history is one empty line
fullPrompt(history, newMessage) ==
    (IF history = <<>>
     THEN <<[speaker |-> "", text |-> <<>>]>>
     ELSE [k \in 1..Len(RecentHistory(history)) |-> PromptLine(RecentHistory(history)[k])])
    \o <<[speaker |-> "User", text |-> newMessage],
         [speaker |-> "Designer", text |-> <<>>]>>

\* the grounding citations of a chat response
GroundingUrls(chunks) ==
    LET web == SelectSeq(chunks, LAMBDA c : "web" \in DOMAIN c)
    IN  [k \in 1..Len(web) |-> [uri |-> web[k].web.uri, title |-> web[k].web.title]]

\* the input field: disabled while processing
onChange(value) ==
    /\ status = IDLE
    /\ input # value
    /\ input' = value
    /\ UNCHANGED <<sliderVars, callVars, originalImage, generatedImages, selectedImageIndex, status,
                   chatMessages, errorMsg, pending, inflight, requests, now>>

\* currentDisplayedImage?.url || originalImage || undefined
ContextImage == IF HasDisplayedImage THEN currentDisplayedImage.url ELSE originalImage

\* the edit branch taken for every text once a design is displayed
handleChatRequest_EditsWhenDisplayed(text) ==
    IF status = EDITING
    THEN UNCHANGED <<sliderVars, callVars, originalImage, generatedImages, selectedImageIndex, status,
                     chatMessages, errorMsg, pending, inflight, requests, now>>
    ELSE IF HasDisplayedImage
    THEN /\ status' = EDITING
         /\ chatMessages' = chatMessages
                \o <<UserMessage(text), ModelMessage(now + 1, ApplyingMsg)>>
         /\ inflight' = Append(inflight,
                [kind |-> "edit", text |-> text,
                 image |-> currentDisplayedImage.url,
                 capturedLength |-> Len(generatedImages)])
         /\ requests' = requests + 1
         /\ UNCHANGED <<sliderVars, callVars, originalImage, generatedImages, selectedImageIndex,
                        errorMsg, pending, now>>
    ELSE /\ status' = GENERATING
         /\ chatMessages' = Append(chatMessages, UserMessage(text))
         /\ inflight' = Append(inflight,
                [kind |-> "chat", text |-> text,
                 image |-> ContextImage,
                 prompt |-> fullPrompt(chatMessages, text)])
         /\ requests' = requests + 1
         /\ UNCHANGED <<sliderVars, callVars, originalImage, generatedImages, selectedImageIndex,
                        errorMsg, pending, now>>

\* handleChatRequest of the controller, called by handleSubmit
handleChatRequest(text) ==
    IF status = EDITING
    THEN UNCHANGED <<sliderVars, callVars, originalImage, generatedImages, selectedImageIndex, status,
                     chatMessages, errorMsg, pending, inflight, requests, now>>
    ELSE IF isEditCommand(text) /\ HasDisplayedImage
    THEN /\ status' = EDITING
         /\ chatMessages' = chatMessages
                \o <<UserMessage(text), ModelMessage(now + 1, ApplyingMsg)>>
         /\ inflight' = Append(inflight,
                [kind |-> "edit", text |-> text,
                 image |-> currentDisplayedImage.url,
                 capturedLength |-> Len(generatedImages)])
         /\ requests' = requests + 1
         /\ UNCHANGED <<sliderVars, callVars, originalImage, generatedImages, selectedImageIndex,
                        errorMsg, pending, now>>
    ELSE /\ status' = GENERATING
         /\ chatMessages' = Append(chatMessages, UserMessage(text))
         /\ inflight' = Append(inflight,
                [kind |-> "chat", text |-> text,
                 image |-> ContextImage,
                 prompt |-> fullPrompt(chatMessages, text)])
         /\ requests' = requests + 1
         /\ UNCHANGED <<sliderVars, callVars, originalImage, generatedImages, selectedImageIndex,
                        errorMsg, pending, now>>

\* the form submitted without looking at isProcessing
ChatSubmitNeverDisabled == Trim(input) # Null

\* ChatInterface: the form is submitted
ChatSubmitEnabled == Trim(input) # Null /\ status = IDLE

\* handleSubmit passing the input on as typed: onSendMessage(input)
handleSubmit_ForwardsUntrimmed ==
    /\ requests < MaxCalls
    /\ IF ChatSubmitEnabled
       THEN /\ handleChatRequest(input)
            /\ input' = <<>>
       ELSE UNCHANGED vars

handleSubmit ==
    /\ requests < MaxCalls
    /\ IF ChatSubmitEnabled
       THEN /\ handleChatRequest(Trim(input))
            /\ input' = <<>>
       ELSE UNCHANGED vars

\* the edited image labelled without the instruction
EditedImage_NoDescription(call, url) ==
    [id |-> now, url |-> url, styleName |-> "Custom Edit", description |-> Null]

EditedImage(call, url) ==
    [id |-> now, url |-> url, styleName |-> "Custom Edit", description |-> call.text]

\* editRoomImage resolved
editResolved(i, outcome) ==
    /\ i \in 1..Len(inflight)
    /\ inflight[i].kind = "edit"
    /\ ReturnedImage(outcome) # Null
    /\ generatedImages' =
           Append(generatedImages, EditedImage(inflight[i], ReturnedImage(outcome)))
    /\ selectedImageIndex' = SelectNew(inflight[i])
    /\ chatMessages' = Append(chatMessages, ModelMessage(now + 2, UpdatedMsg))
    /\ status' = IDLE
    /\ inflight' = RemoveAt(inflight, i)
    /\ UNCHANGED <<sliderVars, callVars, originalImage, errorMsg, input, pending, requests, now>>

\* the catch of the edit branch without its chat message
editRejected_Silent(i, outcome) ==
    /\ i \in 1..Len(inflight)
    /\ inflight[i].kind = "edit"
    /\ ReturnedImage(outcome) = Null
    /\ status' = IDLE
    /\ inflight' = RemoveAt(inflight, i)
    /\ UNCHANGED <<sliderVars, callVars, originalImage, generatedImages, selectedImageIndex, errorMsg,
                   chatMessages, input, pending, requests, now>>

\* the catch of the edit branch putting the apology in the place of the
\* optimistic message
editRejected_ReplacesOptimistic(i, outcome) ==
    /\ i \in 1..Len(inflight)
    /\ inflight[i].kind = "edit"
    /\ ReturnedImage(outcome) = Null
    /\ chatMessages' = Append(SubSeq(chatMessages, 1, Len(chatMessages) - 1),
                              ModelMessage(now, EditFailedMsg))
    /\ status' = IDLE
    /\ inflight' = RemoveAt(inflight, i)
    /\ UNCHANGED <<sliderVars, callVars, originalImage, generatedImages, selectedImageIndex, errorMsg,
                   input, pending, requests, now>>

\* editRoomImage rejected
editRejected(i, outcome) ==
    /\ i \in 1..Len(inflight)
    /\ inflight[i].kind = "edit"
    /\ ReturnedImage(outcome) = Null
    /\ chatMessages' = Append(chatMessages, ModelMessage(now, EditFailedMsg))
    /\ status' = IDLE
    /\ inflight' = RemoveAt(inflight, i)
    /\ UNCHANGED <<sliderVars, callVars, originalImage, generatedImages, selectedImageIndex, errorMsg,
                   input, pending, requests, now>>

\* the message sendChatMessage returns
ResponseMessage(outcome) ==
    [id |-> now, role |-> "model",
     text |-> IF outcome.text = Null THEN EmptyReplyMsg ELSE outcome.text,
     timestamp |-> now,
     groundingUrls |-> GroundingUrls(outcome.chunks)]

\* sendChatMessage resolved
chatResolved(i, outcome) ==
    /\ i \in 1..Len(inflight)
    /\ inflight[i].kind = "chat"
    /\ outcome.ok
    /\ chatMessages' = Append(chatMessages, ResponseMessage(outcome))
    /\ status' = IDLE
    /\ inflight' = RemoveAt(inflight, i)
    /\ UNCHANGED <<sliderVars, callVars, originalImage, generatedImages, selectedImageIndex, errorMsg,
                   input, pending, requests, now>>

\* the catch of the chat branch that also drops the selection
chatRejected_Deselects(i, outcome) ==
    /\ i \in 1..Len(inflight)
    /\ inflight[i].kind = "chat"
    /\ ~outcome.ok
    /\ chatMessages' = Append(chatMessages, ModelMessage(now, ChatFailedMsg))
    /\ selectedImageIndex' = -1
    /\ status' = IDLE
    /\ inflight' = RemoveAt(inflight, i)
    /\ UNCHANGED <<sliderVars, callVars, originalImage, generatedImages, errorMsg,
                   input, pending, requests, now>>

\* sendChatMessage rejected
chatRejected(i, outcome) ==
    /\ i \in 1..Len(inflight)
    /\ inflight[i].kind = "chat"
    /\ ~outcome.ok
    /\ chatMessages' = Append(chatMessages, ModelMessage(now, ChatFailedMsg))
    /\ status' = IDLE
    /\ inflight' = RemoveAt(inflight, i)
    /\ UNCHANGED <<sliderVars, callVars, originalImage, generatedImages, selectedImageIndex, errorMsg,
                   input, pending, requests, now>>

-----------------------------------------------------------------------------
\* the millisecond clock advances
Tick ==
    /\ now < MaxClock
    /\ now' = now + 1
    /\ UNCHANGED <<sliderVars, callVars, originalImage, generatedImages, selectedImageIndex, status,
                   chatMessages, input, errorMsg, pending, inflight, requests>>

\* what the user can do
UserStep ==
    \/ \E f \in FileImages : handleFileUpload(f)
    \/ handleSampleImage
    \/ startOver
    \/ \E idx \in 0..(Len(generatedImages) - 1) : selectThumbnail(idx)
    \/ \E s \in ClickedStyles : handleStyleSelect(s)
    \/ \E v \in TypedInputs : onChange(v)
    \/ handleSubmit

\* a file read or the sample fetch ends
LoadStep ==
    \/ \E i \in 1..Len(pending) : onloadend(i)
    \/ \E i \in 1..Len(pending) : sampleFetchFails(i)

\* an awaited gateway call settles
GatewaySettles ==
    \/ \E i \in 1..Len(inflight), o \in ImageOutcomes : styleResolved(i, o)
    \/ \E i \in 1..Len(inflight), o \in ImageOutcomes : styleRejected(i, o)
    \/ \E i \in 1..Len(inflight), o \in ImageOutcomes : editResolved(i, o)
    \/ \E i \in 1..Len(inflight), o \in ImageOutcomes : editRejected(i, o)
    \/ \E i \in 1..Len(inflight), o \in ChatOutcomes : chatResolved(i, o)
    \/ \E i \in 1..Len(inflight), o \in ChatOutcomes : chatRejected(i, o)

Next == UserStep \/ LoadStep \/ GatewaySettles \/ Tick

Spec == Init /\ [][Next]_vars

\* Sessions in which the user waits: every user operation is issued when no
\* gateway call and no file read is outstanding.
Quiescent == inflight = <<>> /\ pending = <<>>

NextSeq == (Quiescent /\ UserStep) \/ LoadStep \/ GatewaySettles \/ Tick

SpecSeq == Init /\ [][NextSeq]_vars

\* Every gateway call eventually settles.  The clock feeds only ids and
\* timestamps, which no guard reads, so it stands still here.
NextNoClock == UserStep \/ LoadStep \/ GatewaySettles

LiveSpec == Init /\ [][NextNoClock]_vars /\ WF_vars(GatewaySettles)

-----------------------------------------------------------------------------
(* CompareSlider.  The pointing device is one mouse or one finger at a       *)
(* clientX of 0..MaxX; the browser hands a mouse event to the element under  *)
(* the pointer, a touch event to the element the touch started on, and a     *)
(* mouseup also to the window.                                               *)

\* containerRef.current.getBoundingClientRect(): left and width
RectLeft == 2
RectWidth == 4

OverContainer(clientX) == RectLeft <= clientX /\ clientX <= RectLeft + RectWidth

Min(a, b) == IF a <= b THEN a ELSE b
Max(a, b) == IF a >= b THEN a ELSE b

\* the percent handleMove computes
Percent(clientX) ==
    LET x == Max(0, Min(clientX - RectLeft, RectWidth))
    IN  Max(0, Min((x * 100) \div RectWidth, 100))

handleMove(clientX) == sliderPosition' = Percent(clientX)

onMouseDown == isDragging' = TRUE

onMouseMove(clientX) ==
    IF isDragging THEN handleMove(clientX) ELSE UNCHANGED sliderPosition

handleGlobalMouseUp == isDragging' = FALSE

onTouchStart == isDragging' = TRUE

onTouchEnd == isDragging' = FALSE

onTouchMove(clientX) ==
    IF isDragging THEN handleMove(clientX) ELSE UNCHANGED sliderPosition

\* the mouse button goes down where the pointer is
mouseDown ==
    /\ pointer.held = "none"
    /\ pointer' = [pointer EXCEPT !.held = "mouse"]
    /\ IF OverContainer(pointer.x) THEN onMouseDown ELSE UNCHANGED isDragging
    /\ UNCHANGED <<appVars, callVars, sliderPosition>>

\* the mouse moves, its button up or down
mouseMove(clientX) ==
    /\ pointer.held \in {"none", "mouse"}
    /\ clientX # pointer.x
    /\ pointer' = [pointer EXCEPT !.x = clientX]
    /\ IF OverContainer(clientX) THEN onMouseMove(clientX) ELSE UNCHANGED sliderPosition
    /\ UNCHANGED <<appVars, callVars, isDragging>>

\* the mouse button is released, anywhere in the window
mouseUp ==
    /\ pointer.held = "mouse"
    /\ pointer' = [pointer EXCEPT !.held = "none"]
    /\ handleGlobalMouseUp
    /\ UNCHANGED <<appVars, callVars, sliderPosition>>

\* a finger is put on the container
touchStart(clientX) ==
    /\ pointer.held = "none"
    /\ OverContainer(clientX)
    /\ pointer' = [x |-> clientX, held |-> "touch"]
    /\ onTouchStart
    /\ UNCHANGED <<appVars, callVars, sliderPosition>>

\* the finger moves: the event goes to the container the touch started on
touchMove(clientX) ==
    /\ pointer.held = "touch"
    /\ clientX # pointer.x
    /\ pointer' = [pointer EXCEPT !.x = clientX]
    /\ onTouchMove(clientX)
    /\ UNCHANGED <<appVars, callVars, isDragging>>

\* the finger is lifted
touchEnd ==
    /\ pointer.held = "touch"
    /\ pointer' = [pointer EXCEPT !.held = "none"]
    /\ onTouchEnd
    /\ UNCHANGED <<appVars, callVars, sliderPosition>>

\* the session in which the slider is on screen: one design made and shown
CompareShown ==
    /\ originalImage \in FileImages
    /\ generatedImages =
           <<[id |-> 0, url |-> DataUrl("image/png", "R0VORVJBVEVE"),
              styleName |-> "Scandinavian",
              description |-> <<"Reimagined in ", "Scandinavian", " style">>]>>
    /\ selectedImageIndex = 0
    /\ status = IDLE
    /\ chatMessages = <<>>
    /\ errorMsg = Null
    /\ input = <<>>
    /\ pending = <<>>
    /\ inflight = <<>>
    /\ requests = 1
    /\ now = 0

SliderNext ==
    \/ mouseDown
    \/ \E x \in 0..MaxX : mouseMove(x)
    \/ mouseUp
    \/ \E x \in 0..MaxX : touchStart(x)
    \/ \E x \in 0..MaxX : touchMove(x)
    \/ touchEnd

\* the slider has just been mounted for the design shown
SliderMounted == CompareShown /\ SliderInit /\ CallIdle

SliderSpec == SliderMounted /\ [][SliderNext]_vars

-----------------------------------------------------------------------------
(* Functions on their own: the call's input is drawn at the start, and the   *)
(* one step of the behaviour is the call.                                    *)

Returned(value) ==
    /\ ~result.done
    /\ result' = [done |-> TRUE, value |-> value]
    /\ UNCHANGED <<appVars, sliderVars, argument>>

\* String.prototype.toUpperCase on one character
ToUpper(c) ==
    IF \E k \in 1..Len(LowerCase) : LowerCase[k] = c
    THEN UpperCase[CHOOSE k \in 1..Len(LowerCase) : LowerCase[k] = c]
    ELSE c

\* a word in lower case, in upper case and capitalised
Cased(w) ==
    { w,
      [k \in 1..Len(w) |-> ToUpper(w[k])],
      [k \in 1..Len(w) |-> IF k = 1 THEN ToUpper(w[k]) ELSE w[k]] }

\* words that hold no keyword
OtherWords ==
    { <<"c","h","a","n","g">>,
      <<"a","d">>,
      <<"r","e","m","o","v">>,
      <<"m","a","k">>,
      <<"t","u","r">>,
      <<"a"," ","d","d">>,
      <<"l","a","m","p">>,
      <<"e","d","i","t">> }

\* what stands before and after a word in a text
Affixes == UNION { [1..n -> {"x", " "}] : n \in 0..MaxAffix }

\* the sentences of the specification
ExampleEdit == <<"c","h","a","n","g","e"," ","t","h","e"," ","w","a","l","l"," ","c","o","l","o","r"," ","t","o"," ","b","l","u","e">>
ExampleChat == <<"w","h","a","t","'","s"," ","a"," ","g","o","o","d"," ","l","a","m","p"," ","f","o","r"," ","t","h","i","s"," ","r","o","o","m","?">>
ExampleSum == <<"c","a","n"," ","y","o","u"," ","a","d","d"," ","u","p"," ","t","h","e"," ","t","o","t","a","l"," ","c","o","s","t">>

\* the texts handleChatRequest is given
ClassifiedTexts ==
    { a \o w \o b : a \in Affixes, b \in Affixes,
                    w \in OtherWords \cup UNION { Cased(k) : k \in EditKeywords } }
    \cup {ExampleEdit, ExampleChat, ExampleSum}

ClassifyInit ==
    /\ AppInit
    /\ SliderInit
    /\ argument \in ClassifiedTexts
    /\ result = NotCalled

\* const isEditCommand = /change|add|remove|make|turn/i.test(text)
testEditCommand == Returned(isEditCommand(argument))

ClassifySpec == ClassifyInit /\ [][testEditCommand]_vars

\* a transcript of Len(roles) messages; the k-th one reads as k letters
Transcript(roles) ==
    [k \in 1..Len(roles) |->
        [id |-> k, role |-> roles[k], text |-> [j \in 1..k |-> "x"], timestamp |-> k]]

Transcripts ==
    { Transcript(roles) :
        roles \in UNION { [1..n -> {"user", "model"}] : n \in 0..MaxHistory } }

PromptInit ==
    /\ AppInit
    /\ SliderInit
    /\ argument \in [history : Transcripts, newMessage : {<<"h","i">>}]
    /\ result = NotCalled

\* sendChatMessage(chatMessages, text, contextImage): the prompt it sends
sendChatMessage == Returned(fullPrompt(argument.history, argument.newMessage))

PromptSpec == PromptInit /\ [][sendChatMessage]_vars

\* the parts a candidate of the image model can hold
ResponseParts ==
    { [text |-> "Done."],
      [inlineData |-> [mimeType |-> "image/png", data |-> "UE5H"]],
      [inlineData |-> [mimeType |-> "image/webp", data |-> "V0VCUA=="]],
      [inlineData |-> [mimeType |-> "", data |-> "UkFX"]] }

\* what ai.models.generateContent settles with: the parts of the first
\* candidate (none when there is no candidate), or a rejection
ContentOutcomes ==
    { [ok |-> TRUE, parts |-> parts] :
        parts \in UNION { [1..n -> ResponseParts] : n \in 0..MaxParts } }
    \cup {TransportError}

ExtractInit ==
    /\ AppInit
    /\ SliderInit
    /\ argument \in [operation : {"generateReimaginedRoom", "editRoomImage"},
                      outcome : ContentOutcomes]
    /\ result = NotCalled

\* the awaited generateContent of either operation settles and the
\* operation returns (Null: it threw)
generateContentSettles == Returned(ReturnedImage(argument.outcome))

ExtractSpec == ExtractInit /\ [][generateContentSettles]_vars

-----------------------------------------------------------------------------
(* Properties *)

\* new is old with exactly k entries appended
Appended(old, new, k) ==
    /\ Len(new) = Len(old) + k
    /\ SubSeq(new, 1, Len(old)) = old

IsModelSaying(m, text) == m.role = "model" /\ m.text = text
IsUserSaying(m, text) == m.role = "user" /\ m.text = text

\* the model messages that follow the last user message of a transcript
RECURSIVE ModelMessagesAfterLastUser(_)
ModelMessagesAfterLastUser(msgs) ==
    IF msgs = <<>> \/ msgs[Len(msgs)].role = "user"
    THEN 0
    ELSE 1 + ModelMessagesAfterLastUser(SubSeq(msgs, 1, Len(msgs) - 1))

\* the submission is accepted and takes the edit branch / the chat branch
EditSubmission ==
    /\ handleSubmit
    /\ ChatSubmitEnabled
    /\ isEditCommand(Trim(input)) /\ HasDisplayedImage

ChatSubmission ==
    /\ handleSubmit
    /\ ChatSubmitEnabled
    /\ ~(isEditCommand(Trim(input)) /\ HasDisplayedImage)

\* C1: in sessions where the user waits for each call (SpecSeq), every
\* successful style selection grows generatedImages by exactly one entry,
\* keeps the entries before it, and leaves selectedImageIndex on the entry
\* it appended.
C1_StyleSelectionAppendsAndSelects ==
    [][\A i \in 1..Len(inflight), o \in ImageOutcomes :
          styleResolved(i, o) =>
              /\ Appended(generatedImages, generatedImages', 1)
              /\ selectedImageIndex' = Len(generatedImages') - 1
              /\ generatedImages'[selectedImageIndex' + 1].styleName
                     = STYLE_PRESETS[inflight[i].styleId].name]_vars

\* two style selections in a row have completed, the second one selected
C1_Witness ==
    /\ Len(generatedImages) = 2
    /\ \A k \in 1..2 : generatedImages[k].styleName = STYLE_PRESETS["scandi"].name
    /\ selectedImageIndex = 1
    /\ status = IDLE

\* C2: while status is not IDLE, a click on a style button and a submission
\* of the chat form change nothing: no request, no append, no state change.
C2_BusyIgnoresStyleAndChat ==
    [][(/\ status # IDLE
        /\ \/ \E s \in ClickedStyles : handleStyleSelect(s)
           \/ handleSubmit)
       => UNCHANGED vars]_vars

\* a call is awaited while a style button is rendered and text is typed
C2_Witness ==
    /\ status # IDLE
    /\ inflight # <<>>
    /\ originalImage # Null
    /\ Trim(input) # Null
    /\ requests < MaxCalls

\* C3: at most one gateway call is in flight.
C3_AtMostOneInFlight == Len(inflight) <= 1

\* C4: Start Over leaves status IDLE and the whole session state cleared.
C4_StartOverClearsEverything ==
    [][startOver =>
          /\ status' = IDLE
          /\ originalImage' = Null
          /\ generatedImages' = <<>>
          /\ selectedImageIndex' = -1
          /\ chatMessages' = <<>>
          /\ errorMsg' = Null]_vars

\* C5: when a file read or the sample read ends, whatever the state before,
\* originalImage is the image read, the history and the transcript are
\* empty, nothing is selected, no error is shown and status is IDLE.
C5_LoadResetsSession ==
    [][\A i \in 1..Len(pending) :
          onloadend(i) =>
              /\ originalImage' = pending[i].image
              /\ originalImage' # Null
              /\ generatedImages' = <<>>
              /\ selectedImageIndex' = -1
              /\ chatMessages' = <<>>
              /\ errorMsg' = Null
              /\ status' = IDLE]_vars

\* a read ended while a gateway call was still awaited
C5_Witness ==
    /\ requests = 1
    /\ Len(inflight) = 1
    /\ status = IDLE
    /\ originalImage # Null
    /\ generatedImages = <<>>
    /\ chatMessages = <<>>

\* C6 as stated in the specification: when the edit call of a submission fails, the transcript
\* holds exactly one model message after the submission's user message, and
\* no image was appended.
C6_FailedEditOneModelMessage ==
    [][\A i \in 1..Len(inflight), o \in ImageOutcomes :
          editRejected(i, o) =>
              /\ ModelMessagesAfterLastUser(chatMessages') = 1
              /\ generatedImages' = generatedImages]_vars

\* C6 as amended: a submission on the edit branch appends the user message
\* and the optimistic model message before the call; when the call fails,
\* exactly one further model message, the apology, is appended and no image
\* is appended or selected.
C6_FailedEditApologyAfterOptimistic ==
    [][/\ EditSubmission =>
              /\ Appended(chatMessages, chatMessages', 2)
              /\ IsUserSaying(chatMessages'[Len(chatMessages) + 1], Trim(input))
              /\ IsModelSaying(chatMessages'[Len(chatMessages) + 2], ApplyingMsg)
       /\ \A i \in 1..Len(inflight), o \in ImageOutcomes :
              editRejected(i, o) =>
                  /\ Appended(chatMessages, chatMessages', 1)
                  /\ IsModelSaying(chatMessages'[Len(chatMessages')], EditFailedMsg)
                  /\ generatedImages' = generatedImages
                  /\ selectedImageIndex' = selectedImageIndex]_vars

\* an edit failed: the optimistic message and the apology follow the request
C6_Witness ==
    /\ status = IDLE
    /\ Len(chatMessages) = 3
    /\ IsUserSaying(chatMessages[1], <<"A","d","d">>)
    /\ IsModelSaying(chatMessages[2], ApplyingMsg)
    /\ IsModelSaying(chatMessages[3], EditFailedMsg)
    /\ Len(generatedImages) = 1

\* C7: a style selection whose call fails leaves generatedImages and
\* selectedImageIndex as they were, sets a non-empty errorMsg and returns
\* status to IDLE.
C7_FailedStyleKeepsHistory ==
    [][\A i \in 1..Len(inflight), o \in ImageOutcomes :
          styleRejected(i, o) =>
              /\ generatedImages' = generatedImages
              /\ selectedImageIndex' = selectedImageIndex
              /\ errorMsg' # Null
              /\ status' = IDLE]_vars

\* a style selection failed after an earlier one had succeeded
C7_Witness ==
    /\ inflight = <<>>
    /\ errorMsg = GenerateFailedMsg
    /\ Len(generatedImages) = 1
    /\ selectedImageIndex = 0
    /\ status = IDLE

\* C8: a submission on the chat branch appends the user message and no model
\* message; when its call fails, exactly one model message, the
\* connectivity error, is appended, generatedImages and selectedImageIndex
\* stay as they were and status returns to IDLE.
C8_FailedChatOneModelMessage ==
    [][/\ ChatSubmission =>
              /\ Appended(chatMessages, chatMessages', 1)
              /\ IsUserSaying(chatMessages'[Len(chatMessages')], Trim(input))
       /\ \A i \in 1..Len(inflight), o \in ChatOutcomes :
              chatRejected(i, o) =>
                  /\ Appended(chatMessages, chatMessages', 1)
                  /\ IsModelSaying(chatMessages'[Len(chatMessages')], ChatFailedMsg)
                  /\ generatedImages' = generatedImages
                  /\ selectedImageIndex' = selectedImageIndex
                  /\ status' = IDLE]_vars

\* a question about a displayed design failed
C8_Witness ==
    /\ status = IDLE
    /\ Len(chatMessages) = 2
    /\ IsUserSaying(chatMessages[1], <<"h","i">>)
    /\ IsModelSaying(chatMessages[2], ChatFailedMsg)
    /\ selectedImageIndex = 0
    /\ Len(generatedImages) = 1

\* C9: in sessions where the user waits for each call (SpecSeq), an edit
\* submission with text t made with a displayed image and status IDLE appends
\* the user message t and then the optimistic model message, and nothing
\* else; when its call succeeds these two are still the end of the
\* transcript, and the completion appends one RoomImage labelled "Custom
\* Edit" and described by t, selects it, and appends the confirmation.
C9_SuccessfulEditOrder ==
    [][/\ (EditSubmission /\ status = IDLE) =>
              /\ Appended(chatMessages, chatMessages', 2)
              /\ IsUserSaying(chatMessages'[Len(chatMessages) + 1], Trim(input))
              /\ IsModelSaying(chatMessages'[Len(chatMessages) + 2], ApplyingMsg)
              /\ generatedImages' = generatedImages
              /\ selectedImageIndex' = selectedImageIndex
       /\ \A i \in 1..Len(inflight), o \in ImageOutcomes :
              editResolved(i, o) =>
                  /\ Len(chatMessages) >= 2
                  /\ IsUserSaying(chatMessages[Len(chatMessages) - 1], inflight[i].text)
                  /\ IsModelSaying(chatMessages[Len(chatMessages)], ApplyingMsg)
                  /\ Appended(generatedImages, generatedImages', 1)
                  /\ generatedImages'[Len(generatedImages')].styleName = "Custom Edit"
                  /\ generatedImages'[Len(generatedImages')].description = inflight[i].text
                  /\ selectedImageIndex' = Len(generatedImages') - 1
                  /\ Appended(chatMessages, chatMessages', 1)
                  /\ IsModelSaying(chatMessages'[Len(chatMessages')], UpdatedMsg)]_vars

\* "Add" was applied to the displayed design
C9_Witness ==
    /\ status = IDLE
    /\ Len(chatMessages) = 3
    /\ IsUserSaying(chatMessages[1], <<"A","d","d">>)
    /\ IsModelSaying(chatMessages[2], ApplyingMsg)
    /\ IsModelSaying(chatMessages[3], UpdatedMsg)
    /\ Len(generatedImages) = 2
    /\ generatedImages[2].description = <<"A","d","d">>
    /\ selectedImageIndex = 1

\* C10: whenever an awaited gateway call settles, status becomes IDLE; and,
\* every gateway call settling eventually (LiveSpec), a state whose status
\* is GENERATING or EDITING is followed by one whose status is IDLE.
C10_SettlingReturnsToIdle ==
    /\ [][GatewaySettles => status' = IDLE]_vars
    /\ (status \in {GENERATING, EDITING}) ~> (status = IDLE)

\* a style call and a chat call have both failed and the controller is idle
C10_Witness ==
    /\ errorMsg = GenerateFailedMsg
    /\ chatMessages # <<>>
    /\ IsModelSaying(chatMessages[Len(chatMessages)], ChatFailedMsg)
    /\ status = IDLE
    /\ inflight = <<>>

\* an accepted submission of the chat form (it clears the field)
AcceptedSubmission == ChatSubmitEnabled /\ input' = <<>> /\ handleSubmit

\* C11: an accepted chat submission sets status EDITING and issues an edit
\* call exactly when its text is an edit command and a generated image is
\* displayed; otherwise it sets status GENERATING and issues a chat call,
\* and when that call resolves the returned model message is appended and
\* generatedImages is left as it was.
C11_EditIffCommandAndDisplayed ==
    [][/\ AcceptedSubmission =>
              /\ Len(inflight') = Len(inflight) + 1
              /\ IF isEditCommand(Trim(input)) /\ HasDisplayedImage
                 THEN /\ status' = EDITING
                      /\ inflight'[Len(inflight')].kind = "edit"
                 ELSE /\ status' = GENERATING
                      /\ inflight'[Len(inflight')].kind = "chat"
       /\ \A i \in 1..Len(inflight), o \in ChatOutcomes :
              chatResolved(i, o) =>
                  /\ Appended(chatMessages, chatMessages', 1)
                  /\ IsModelSaying(chatMessages'[Len(chatMessages')], o.text)
                  /\ generatedImages' = generatedImages
                  /\ selectedImageIndex' = selectedImageIndex]_vars

\* "Add" was submitted with no design displayed and answered as a question
C11_Witness ==
    /\ status = IDLE
    /\ generatedImages = <<>>
    /\ Len(chatMessages) = 2
    /\ IsUserSaying(chatMessages[1], <<"A","d","d">>)
    /\ \E o \in ChatResponses : IsModelSaying(chatMessages[2], o.text)

\* a text in lower case
Lower(t) == [k \in 1..Len(t) |-> FoldCase(t[k])]

\* some stretch of the text reads, letter case aside, as the token
HasToken(t, token) ==
    \E i \in 1..Len(t), j \in 1..Len(t) : i <= j /\ Lower(SubSeq(t, i, j)) = token

C13_AppendSelectsNewLast ==
    [][Len(generatedImages') > Len(generatedImages) =>
          /\ selectedImageIndex' = Len(generatedImages)
          /\ selectedImageIndex' = Len(generatedImages') - 1]_vars

\* the first call of a session is the selection of the preset named
\* "Scandinavian", and it resolves with an image
FirstScandinavianResolved(i, o) ==
    /\ styleResolved(i, o)
    /\ requests = 1
    /\ STYLE_PRESETS[inflight[i].styleId].name = "Scandinavian"

\* what the scenario leaves, but for the label
ScenarioOutcome(i) ==
    /\ Len(generatedImages') = 1
    /\ selectedImageIndex' = 0
    /\ CompareSliderProps' =
           [shown |-> TRUE, original |-> inflight[i].image,
            generated |-> generatedImages'[1].url]

\* C14 as the specification states it: in a fresh session where the user
\* waits for each operation (SpecSeq), after image A is uploaded and the
\* style "Scandinavian" is selected successfully, generatedImages has exactly
\* one entry, its styleName is "Scandinavian Style", selectedImageIndex is 0
\* and the compare view shows A before and the new image after.
C14_ScenarioLabelledScandinavianStyle ==
    [][\A i \in 1..Len(inflight), o \in ImageOutcomes :
          FirstScandinavianResolved(i, o) =>
              /\ ScenarioOutcome(i)
              /\ generatedImages'[1].styleName = "Scandinavian Style"]_vars

\* C14 as amended: the same scenario, with the entry's styleName being the
\* preset's name, "Scandinavian"; "Reimagined in Scandinavian style" is its
\* description.
C14_ScenarioLabelledScandinavian ==
    [][\A i \in 1..Len(inflight), o \in ImageOutcomes :
          FirstScandinavianResolved(i, o) =>
              /\ ScenarioOutcome(i)
              /\ generatedImages'[1].styleName = "Scandinavian"
              /\ generatedImages'[1].description
                     = <<"Reimagined in ", "Scandinavian", " style">>]_vars

\* the scenario has run: one Scandinavian design, compared with the upload
C14_Witness ==
    /\ requests = 1
    /\ inflight = <<>>
    /\ originalImage \in FileImages
    /\ Len(generatedImages) = 1
    /\ generatedImages[1].styleName = "Scandinavian"
    /\ selectedImageIndex = 0
    /\ CompareSliderProps.shown
    /\ CompareSliderProps.original = originalImage

\* C15: a style selection invoked while there is no original image is not
\* attempted: no gateway call is issued and status, generatedImages,
\* selectedImageIndex, chatMessages and errorMsg stay as they were.
C15_NoOriginalNoStyleSelection ==
    [][(/\ originalImage = Null
        /\ \E s \in ClickedStyles : handleStyleSelect(s))
       => /\ requests' = requests
          /\ inflight' = inflight
          /\ UNCHANGED <<status, generatedImages, selectedImageIndex,
                         chatMessages, errorMsg>>]_vars

\* a session was started over after a design had been made: no original
\* image, the controller idle and a call still allowed
C15_Witness ==
    /\ originalImage = Null
    /\ status = IDLE
    /\ inflight = <<>>
    /\ pending = <<>>
    /\ requests = 1
    /\ selectedImageIndex = 0

\* old is a prefix of new, entry for entry
IsPrefix(old, new) ==
    /\ Len(old) <= Len(new)
    /\ SubSeq(new, 1, Len(old)) = old

\* a full reset: Start Over, or an upload or sample read that ends
FullReset == startOver \/ \E i \in 1..Len(pending) : onloadend(i)

\* C16: every step that is not a full reset leaves generatedImages and
\* chatMessages as prefixes of their new values: entries are only appended,
\* and the entries already there are not modified.
C16_AppendOnlyBetweenResets ==
    [][~FullReset =>
          /\ IsPrefix(generatedImages, generatedImages')
          /\ IsPrefix(chatMessages, chatMessages')]_vars

\* a design was made and an edit of it failed: one image, and a transcript of
\* three messages grown one append after the other
C16_Witness ==
    /\ inflight = <<>>
    /\ Len(generatedImages) = 1
    /\ Len(chatMessages) = 3
    /\ chatMessages[3].text = EditFailedMsg
    /\ originalImage # Null

PointerMoved == pointer'.x # pointer.x

PointerReleased == pointer.held # "none" /\ pointer'.held = "none"

\* C17: while a drag is active every movement of the pointer, inside the
\* container or outside it, puts the slider at the position of the pointer
\* (clamped to 0..100 percent); the drag ends only when the pointer is
\* released, and a release ends it wherever the pointer is.
C17_DragTracksOutsideUntilRelease ==
    [][/\ (isDragging /\ PointerMoved) => sliderPosition' = Percent(pointer'.x)
       /\ (isDragging /\ ~isDragging') => PointerReleased
       /\ PointerReleased => ~isDragging']_vars

\* the line a transcript entry is serialized as
SerializedAs(line, m) ==
    /\ line.speaker = (IF m.role = "user" THEN "User" ELSE "Designer")
    /\ line.text = m.text

\* C18: the prompt of a chat turn made from a transcript of n entries holds
\* the last min(6, n) entries and no other, in transcript order, each as a
\* "User:" or "Designer:" line by its role, then the new message, once, as
\* the last "User:" line (the prompt ends with the "Designer:" cue).
C18_PromptHoldsLastSixThenMessage ==
    result.done =>
        LET h == argument.history
            n == Len(h)
            k == IF n < 6 THEN n ELSE 6
            p == result.value
            first == Len(p) - 2 - k
        IN  /\ Len(p) >= k + 2
            /\ \A j \in 1..k : SerializedAs(p[first + j], h[n - k + j])
            /\ \A j \in 1..first : p[j].speaker = "" /\ p[j].text = <<>>
            /\ p[Len(p) - 1] = [speaker |-> "User", text |-> argument.newMessage]
            /\ p[Len(p)] = [speaker |-> "Designer", text |-> <<>>]
            /\ Cardinality({j \in 1..Len(p) : p[j].text = argument.newMessage}) = 1

\* a prompt was built from a transcript of seven messages
C18_Witness ==
    /\ result.done
    /\ Len(argument.history) = 7
    /\ argument.history[1].role = "user"
    /\ argument.history[2].role = "model"
    /\ Len(result.value) = 8

IsInlinePart(part) == "inlineData" \in DOMAIN part

\* the service call succeeded and some part of its candidate is an image
HasInlinePart(o) == o.ok /\ \E k \in 1..Len(o.parts) : IsInlinePart(o.parts[k])

FirstInlinePart(o) ==
    o.parts[CHOOSE k \in 1..Len(o.parts) :
                /\ IsInlinePart(o.parts[k])
                /\ \A j \in 1..(k - 1) : ~IsInlinePart(o.parts[j])].inlineData

\* C19: Regenerate and Edit return an image exactly when the service call
\* succeeded and its first candidate holds an inline image part; the image
\* is then the data URL of the first such part (its MIME type, image/jpeg
\* when it names none, and its data); a response without an inline part and
\* a failed call both end in an error.
C19_ImageIffInlinePart ==
    result.done =>
        LET o == argument.outcome
        IN  /\ (result.value # Null) <=> HasInlinePart(o)
            /\ HasInlinePart(o) =>
                   result.value =
                       <<"data:",
                         IF FirstInlinePart(o).mimeType = "" THEN "image/jpeg"
                         ELSE FirstInlinePart(o).mimeType,
                         ";base64,",
                         FirstInlinePart(o).data>>

\* a response of a text part and two images gave the first image
C19_Witness ==
    /\ result.done
    /\ argument.outcome.ok
    /\ Len(argument.outcome.parts) = 3
    /\ ~IsInlinePart(argument.outcome.parts[1])
    /\ IsInlinePart(argument.outcome.parts[2])
    /\ IsInlinePart(argument.outcome.parts[3])
    /\ argument.outcome.parts[2] # argument.outcome.parts[3]
    /\ result.value = <<"data:", argument.outcome.parts[2].inlineData.mimeType,
                        ";base64,", argument.outcome.parts[2].inlineData.data>>

\* a click on a style button that the button and the handler let through
AcceptedStyleSelection ==
    /\ StyleButtonEnabled
    /\ \E s \in ClickedStyles : StyleSelectAccepts(s) /\ handleStyleSelect(s)

\* C20: every accepted style selection or chat submission issues exactly
\* one gateway request, and no other step issues one: at any other step the
\* count of requests stays and the awaited calls stay or lose the one that
\* settled, so a failed call is not issued again and the number of requests
\* is the number of accepted calls.
C20_SingleShot ==
    [][IF AcceptedStyleSelection \/ AcceptedSubmission
       THEN /\ requests' = requests + 1
            /\ Len(inflight') = Len(inflight) + 1
            /\ SubSeq(inflight', 1, Len(inflight)) = inflight
       ELSE /\ requests' = requests
            /\ \/ inflight' = inflight
               \/ \E i \in 1..Len(inflight) : inflight' = RemoveAt(inflight, i)]_vars

\* two calls were accepted, one succeeded and one failed, none is awaited
C20_Witness ==
    /\ requests = 2
    /\ inflight = <<>>
    /\ Len(generatedImages) = 1
    /\ errorMsg = GenerateFailedMsg
    /\ status = IDLE

\* C21: in every reachable state the entries of generatedImages have
\* pairwise distinct ids, whatever the times at which the calls complete.
C21_ImageIdsDistinct ==
    \A j, k \in 1..Len(generatedImages) :
        j # k => generatedImages[j].id # generatedImages[k].id

\* C23: in every reachable state selectedImageIndex is -1 or an index of
\* generatedImages (0 <= selectedImageIndex < generatedImages.length), so
\* the displayed image is defined whenever selectedImageIndex >= 0.
C23_SelectedIndexValid ==
    /\ selectedImageIndex = -1 \/ selectedImageIndex \in 0..(Len(generatedImages) - 1)
    /\ selectedImageIndex >= 0 => HasDisplayedImage

\* C24: in every reachable state status is not IDLE (the style buttons and
\* the chat submit control are disabled) exactly when a gateway call is
\* awaited; the controls are never enabled while a call is pending.
C24_BusyIffCallInFlight ==
    /\ (status # IDLE) <=> (inflight # <<>>)
    /\ inflight # <<>> => ~StyleButtonEnabled /\ ~ChatSubmitEnabled

\* C26: in every reachable state the entries of chatMessages have pairwise
\* distinct ids, whatever the times of the submissions and completions, the
\* ids being the clock's reading, the reading plus one and the reading plus
\* two.
C26_MessageIdsDistinct ==
    \A j, k \in 1..Len(chatMessages) :
        j # k => chatMessages[j].id # chatMessages[k].id

\* an awaited call that the state shows to have been issued before a reset:
\* only a reset changes originalImage or shortens generatedImages and
\* chatMessages, a style call is issued for the original image of its time,
\* and a chat submission puts its user message in the transcript
IssuedBeforeReset(call) ==
    \/ call.kind = "style" /\ call.image # originalImage
    \/ call.kind \in {"style", "edit"} /\ call.capturedLength > Len(generatedImages)
    \/ call.kind \in {"edit", "chat"} /\ chatMessages = <<>>

\* C25: a reset (Start Over, or an upload that has been read) is atomic with
\* respect to pending work: when a gateway call issued before the reset
\* settles after it, no image is added to generatedImages, no message to
\* chatMessages and no error text is set.
C25_ResetDiscardsPendingWork ==
    [][\A i \in 1..Len(inflight) :
          (IssuedBeforeReset(inflight[i]) /\ inflight' = RemoveAt(inflight, i))
              => UNCHANGED <<generatedImages, chatMessages, errorMsg>>]_vars

-----------------------------------------------------------------------------
(* Data URLs as the gateway reads them: a string is the sequence of its      *)
(* characters.                                                               *)

MaxMime == 2
MaxData == 2

\* str.split(sep) for a separator of one character
RECURSIVE split(_, _)
split(str, sep) ==
    IF \E k \in 1..Len(str) : str[k] = sep
    THEN LET k == CHOOSE k \in 1..Len(str) :
                      /\ str[k] = sep
                      /\ \A j \in 1..(k - 1) : str[j] # sep
         IN  <<SubSeq(str, 1, k - 1)>> \o split(SubSeq(str, k + 1, Len(str)), sep)
    ELSE <<str>>

\* array[index], counted from 0; past the end it is undefined, which `||`
\* takes like the empty string, so both are the empty sequence here
ElementAt(array, index) ==
    IF index + 1 \in DOMAIN array THEN array[index + 1] ELSE <<>>

DefaultMimeType == <<"i", "m", "a", "g", "e", "/", "j", "p", "e", "g">>

\* base64Str.split(',')[1] || base64Str
stripBase64Prefix(base64Str) ==
    IF ElementAt(split(base64Str, ","), 1) # <<>>
    THEN ElementAt(split(base64Str, ","), 1)
    ELSE base64Str

\* base64Str.split(';')[0].split(':')[1] || 'image/jpeg'
getMimeType(base64Str) ==
    IF ElementAt(split(ElementAt(split(base64Str, ";"), 0), ":"), 1) # <<>>
    THEN ElementAt(split(ElementAt(split(base64Str, ";"), 0), ":"), 1)
    ELSE DefaultMimeType

\* `data:${mimeType};base64,${data}`, character by character
DataUrlText(mimeType, data) ==
    <<"d", "a", "t", "a", ":">> \o mimeType
        \o <<";", "b", "a", "s", "e", "6", "4", ",">> \o data

\* MIME types are made of token characters, base64 text of the base64
\* alphabet; a payload of a data URL is any text without a comma
MimeChars == {"a", "/"}
Base64Chars == {"Q", "="}
PayloadChars == Base64Chars \cup {";"}

MimeTypes == UNION { [1..n -> MimeChars] : n \in 1..MaxMime }
Payloads == UNION { [1..n -> PayloadChars] : n \in 0..MaxData }
Base64Texts == UNION { [1..n -> Base64Chars] : n \in 0..MaxData }

\* the image strings handed to the gateway: data URLs, and base64 text with
\* no prefix
ImageArguments ==
    { [prefixed |-> TRUE, mimeType |-> m, data |-> d, text |-> DataUrlText(m, d)] :
        m \in MimeTypes, d \in Payloads }
    \cup { [prefixed |-> FALSE, mimeType |-> <<>>, data |-> d, text |-> d] :
             d \in Base64Texts }

ParseInit ==
    /\ AppInit
    /\ SliderInit
    /\ argument \in ImageArguments
    /\ result = NotCalled

\* the inlineData part built from the image string by each gateway operation
inlineData ==
    Returned([mimeType |-> getMimeType(argument.text),
              data |-> stripBase64Prefix(argument.text)])

ParseSpec == ParseInit /\ [][inlineData]_vars

\* C22: for a payload d without a comma and a non-empty MIME type m, the
\* MIME type and the payload read from the data URL "data:m;base64,d" are m
\* and d; for an input with no data-URL prefix the MIME type is "image/jpeg"
\* and the payload is the input unchanged.
C22_DataUrlRoundTrip ==
    result.done =>
        IF argument.prefixed
        THEN /\ result.value.mimeType = argument.mimeType
             /\ result.value.data = argument.data
        ELSE /\ result.value.mimeType = DefaultMimeType
             /\ result.value.data = argument.text

-----------------------------------------------------------------------------
(* The chat form on its own: a session with an uploaded image in which the   *)
(* user types, submits and selects styles, and the calls settle.             *)

\* what is typed into the field here: text with spaces around it, and
\* nothing but a space
FieldInputs == { <<"A","d","d"," ">>, <<" ","h","i"," ">>, <<" ">> }

\* an upload has been read and nothing else has happened
ImageLoaded ==
    /\ originalImage \in FileImages
    /\ generatedImages = <<>>
    /\ selectedImageIndex = -1
    /\ status = IDLE
    /\ chatMessages = <<>>
    /\ errorMsg = Null
    /\ input = <<>>
    /\ pending = <<>>
    /\ inflight = <<>>
    /\ requests = 0
    /\ now = 0

ChatMounted == ImageLoaded /\ SliderInit /\ CallIdle

SubmitNext ==
    \/ \E v \in FieldInputs : onChange(v)
    \/ handleSubmit
    \/ \E s \in ClickedStyles : handleStyleSelect(s)
    \/ GatewaySettles

SubmitSpec == ChatMounted /\ [][SubmitNext]_vars

\* C27: a submit of the chat form forwards to the controller only when the
\* trimmed input is not empty and the view is not processing: the text
\* forwarded (the text of the call issued and of the user message appended)
\* is the trimmed input, and the field is cleared; otherwise the submit
\* forwards nothing and leaves the input, the transcript, the status and the
\* calls as they were.
C27_SubmitForwardsTrimmedInput ==
    [][handleSubmit =>
          IF Trim(input) # Null /\ status = IDLE
          THEN /\ input' = <<>>
               /\ requests' = requests + 1
               /\ Len(inflight') = Len(inflight) + 1
               /\ inflight'[Len(inflight')].text = Trim(input)
               /\ Len(chatMessages') > Len(chatMessages)
               /\ IsUserSaying(chatMessages'[Len(chatMessages) + 1], Trim(input))
          ELSE UNCHANGED <<input, chatMessages, status, inflight, requests,
                           generatedImages, selectedImageIndex, errorMsg>>]_vars

\* " hi " was typed and submitted: "hi" was forwarded and the field is empty
C27_Witness ==
    /\ input = <<>>
    /\ Len(inflight) = 1
    /\ inflight[1].kind = "chat"
    /\ inflight[1].text = <<"h","i">>
    /\ Len(chatMessages) = 1
    /\ IsUserSaying(chatMessages[1], <<"h","i">>)

====
